---- MODULE Spec2Model ----
(***************************************************************************)
(* Model of filescleaner-1.0/filescleaner.py: the FileListOrdered          *)
(* inventory (a dict `d` keyed by path, a list `l` ordered by st_ctime and *)
(* a running `total_size`) and its operations __init__, __setitem__,       *)
(* __delitem__ and delete_files_to_max_size, together with the files that  *)
(* os.remove acts on.                                                      *)
(*                                                                         *)
(* List positions are 0-based as in the source: position i of a Python     *)
(* list is element i+1 of the TLA+ sequence.                               *)
(***************************************************************************)
EXTENDS Integers, Sequences, FiniteSets, TLC

\* ------------------------------------------------------------------ bounds
MaxLen == 3
MaxEdits == 1

\* Two files, each created at one of two times: enough to order the entries,
\* to tie them, and to fail on one entry while another is freed.
Paths == 1..2
Ctimes == 1..2
\* Sizes: an empty file, an odd and an even size.
Sizes == 0..2
\* max_size ranges over -1, 0 and the positive sizes up to one above a file's.
Targets == (-1)..3

\* ------------------------------------------------------------ FileStat
\* FileStat(path, stat): the path and the two os.stat fields the code reads.
FileStat == [path : Paths, st_size : Sizes, st_ctime : Ctimes]

\* FileStat.__lt__: records compare by st_ctime only.
FileStat_lt(a, b) == a.st_ctime < b.st_ctime

\* ------------------------------------------------------- list helpers
\* list.insert(i, v), 0-based
ListInsert(lst, i, v) == SubSeq(lst, 1, i) \o <<v>> \o SubSeq(lst, i + 1, Len(lst))

\* del list[i], 0-based
ListDel(lst, i) == SubSeq(lst, 1, i) \o SubSeq(lst, i + 2, Len(lst))

RECURSIVE SumSizes(_)
SumSizes(lst) == IF lst = <<>> THEN 0 ELSE lst[1].st_size + SumSizes(Tail(lst))

\* The sort, were it descending.
sorted_desc(fs) ==
    LET RECURSIVE go(_)
        go(q) == IF q = <<>> THEN <<>>
                 ELSE LET init == go(SubSeq(q, 1, Len(q) - 1))
                          x == q[Len(q)]
                          k == Cardinality({i \in 1..Len(init) : ~FileStat_lt(init[i], x)})
                      IN ListInsert(init, k, x)
    IN go(fs)

\* sorted(file_stats): a stable ascending sort under FileStat.__lt__; a record
\* is placed after every record already placed that is not greater than it.
sorted(fs) ==
    LET RECURSIVE go(_)
        go(q) == IF q = <<>> THEN <<>>
                 ELSE LET init == go(SubSeq(q, 1, Len(q) - 1))
                          x == q[Len(q)]
                          k == Cardinality({i \in 1..Len(init) : ~FileStat_lt(x, init[i])})
                      IN ListInsert(init, k, x)
    IN go(fs)

\* FileListOrdered.idx: binary search for the leftmost position whose record
\* is not less than x.
idx(lst, x) ==
    LET RECURSIVE loop(_, _)
        loop(lo, hi) ==
            IF lo < hi
            THEN LET mid == (lo + hi) \div 2
                 IN IF FileStat_lt(lst[mid + 1], x) THEN loop(mid + 1, hi) ELSE loop(lo, mid)
            ELSE lo
    IN loop(0, Len(lst))

\* raise KeyError(x) in l_idx
KeyError == -1

\* FileListOrdered.l_idx: from idx(x) on, the first position holding x's path.
l_idx(lst, x) ==
    LET RECURSIVE loop(_)
        loop(i) == IF i < Len(lst)
                   THEN IF lst[i + 1].path = x.path THEN i ELSE loop(i + 1)
                   ELSE KeyError
    IN loop(idx(lst, x))

\* ------------------------------------------------------------------ state
VARIABLES
    d,           \* FileListOrdered.d : path -> FileStat
    l,           \* FileListOrdered.l : list of FileStat
    total_size,  \* FileListOrdered.total_size
    disk,        \* the paths that exist in the filesystem
    call,        \* the last operation called and what it did
    nedits       \* the number of __setitem__/__delitem__ calls since construction

vars == <<d, l, total_size, disk, call, nedits>>

VARIABLES
    walk         \* get_dir_size: the files os.walk listed, each with what os.stat gave

scan_vars == <<walk>>

\* No scan is under way.
NoScan == walk = <<>>

VARIABLES
    settings,    \* the loaded config: DIRECTORIES (path, config pairs) and SLEEP
    directories, \* monitor_func: the list get_directories returned
    pc           \* where the process is, or how it ended

config_vars == <<settings, directories, pc>>

VARIABLES
    now,          \* the clock: what time.time() returns
    start,        \* monitor_func: start
    should_sleep, \* monitor_func: should_sleep
    directory,    \* the for loops' directory: its place in directories, from 1
    files,        \* for each directory, its inventory's files still on disk
    pending,      \* for each directory: a rescan left total_size > max_bytes
                  \* and no eviction was called since
    checks,       \* the directories whose first, and whose second,
                  \* check_disk_usage of this cycle was called, and returned True
    last          \* the last call made by the loop and what it did

monitor_vars == <<now, start, should_sleep, directory, files, pending, checks, last>>

\* What the loop records of a call.
NoLast == [fn |-> "", dir |-> 0, ret |-> FALSE, rescanned |-> FALSE,
           evicted |-> FALSE, had_fl |-> FALSE, over_max |-> FALSE,
           elapsed |-> 0, logged |-> FALSE]

\* No check_disk_usage of this cycle returned True.
NoChecks == [called1 |-> {}, called2 |-> {}, first |-> {}, second |-> {}]

\* The loop is not running.
NoLoop ==
    /\ now = 0 /\ start = 0 /\ should_sleep = TRUE /\ directory = 0
    /\ files = <<>> /\ pending = <<>> /\ checks = NoChecks /\ last = NoLast

\* No daemon is running.
NoMonitor ==
    /\ settings = [DIRECTORIES |-> <<>>, SLEEP |-> 0]
    /\ directories = <<>>
    /\ pc = "none"

\* What a call that is not an eviction records.
NoCall(name, st) ==
    [op |-> name, status |-> st, max_size |-> 0, idx |-> 0, s |-> 0,
     bytes_freed |-> 0, delete_errors |-> <<>>, attempted |-> <<>>,
     outcome |-> <<>>, critical |-> FALSE]

\* The file_stats a caller may pass to FileListOrdered(...): no path twice.
FileStatLists ==
    {fs \in UNION {[1..n -> FileStat] : n \in 0..Cardinality(Paths)} :
        \A i, j \in 1..Len(fs) : fs[i].path = fs[j].path => i = j}

\* {f.path: f for f in file_stats}
DictOf(fs) == [p \in {fs[i].path : i \in 1..Len(fs)} |->
                 (CHOOSE r \in {fs[i] : i \in 1..Len(fs)} : r.path = p)]

\* FileListOrdered.__init__(file_stats)
FileListOrdered(file_stats) ==
    [d |-> DictOf(file_stats),
     l |-> sorted(file_stats),
     total_size |-> SumSizes(sorted(file_stats))]

\* The state after construction: an inventory built from any file_stats; each
\* FileStat holds the os.stat result of its file, so the file exists.
Init ==
    /\ \E fs \in FileStatLists :
         LET fl == FileListOrdered(fs)
         IN /\ d = fl.d
            /\ l = fl.l
            /\ total_size = fl.total_size
            /\ disk = DOMAIN fl.d
    /\ call = NoCall("__init__", "ok")
    /\ nedits = 0
    /\ NoScan /\ NoMonitor /\ NoLoop

\* ------------------------------------------------- __setitem__, __delitem__
\* FileListOrdered.__setitem__(k, v), v holding the os.stat result of the
\* file k; total_size is not touched.
SetItem(k, v) ==
    /\ nedits < MaxEdits
    /\ nedits' = nedits + 1
    /\ disk' = disk \cup {k}
    /\ LET known == k \in DOMAIN d
           moved == known /\ d[k].st_ctime # v.st_ctime
           old_idx == IF moved THEN l_idx(l, d[k]) ELSE 0
       IN IF moved /\ old_idx = KeyError
          THEN /\ call' = NoCall("__setitem__", "KeyError")
               /\ UNCHANGED <<d, l, total_size>>
          ELSE LET l1 == IF moved THEN ListDel(l, old_idx) ELSE l
               IN /\ Len(l1) < MaxLen
                  /\ l' = ListInsert(l1, idx(l1, v), v)
                  /\ d' = [p \in DOMAIN d \cup {k} |-> IF p = k THEN v ELSE d[p]]
                  /\ call' = NoCall("__setitem__", "ok")
                  /\ UNCHANGED total_size

\* FileListOrdered.__delitem__(k): total_size is not touched.
DelItem(k) ==
    /\ nedits < MaxEdits
    /\ nedits' = nedits + 1
    /\ IF k \notin DOMAIN d \/ l_idx(l, d[k]) = KeyError
       THEN /\ call' = NoCall("__delitem__", "KeyError")
            /\ UNCHANGED <<d, l, total_size, disk>>
       ELSE /\ l' = ListDel(l, l_idx(l, d[k]))
            /\ d' = [p \in DOMAIN d \ {k} |-> d[p]]
            /\ call' = NoCall("__delitem__", "ok")
            /\ UNCHANGED <<total_size, disk>>

\* ------------------------------------------------ delete_files_to_max_size
\* The prefix scan, were it to go on only while total_size - s > max_size.
PrefixScan_gt(total, lst, max_size) ==
    LET RECURSIVE loop(_, _)
        loop(i, s) ==
            IF total - s > max_size
            THEN IF i >= Len(lst)
                 THEN [idx |-> i, s |-> s, raised |-> TRUE]
                 ELSE loop(i + 1, s + lst[i + 1].st_size)
            ELSE [idx |-> i, s |-> s, raised |-> FALSE]
    IN loop(0, 0)

\* The prefix scan: while self.total_size - s >= max_size, take l[idx].
\* Reading l[idx] at idx = len(l) raises IndexError.
PrefixScan(total, lst, max_size) ==
    LET RECURSIVE loop(_, _)
        loop(i, s) ==
            IF total - s >= max_size
            THEN IF i >= Len(lst)
                 THEN [idx |-> i, s |-> s, raised |-> TRUE]
                 ELSE loop(i + 1, s + lst[i + 1].st_size)
            ELSE [idx |-> i, s |-> s, raised |-> FALSE]
    IN loop(0, 0)

\* os.remove(st.path) on a filesystem holding the paths dsk, where the paths in
\* denied cannot be removed (an OSError other than ENOENT).
os_remove(path, dsk, denied) ==
    IF path \notin dsk THEN "ENOENT"
    ELSE IF path \in denied THEN "error"
    ELSE "deleted"

\* The removal loop, were it to stop at the first failure.
RemoveLoop_stop(lst, n, dsk, denied) ==
    LET RECURSIVE loop(_, _)
        loop(i, acc) ==
            IF i < n
            THEN LET st == lst[i + 1]
                     out == os_remove(st.path, acc.disk, denied)
                     nxt == [bytes_freed |-> IF out = "error" THEN acc.bytes_freed
                                             ELSE acc.bytes_freed + st.st_size,
                             delete_errors |-> IF out = "error"
                                               THEN Append(acc.delete_errors, st)
                                               ELSE acc.delete_errors,
                             attempted |-> Append(acc.attempted, st),
                             outcome |-> Append(acc.outcome, out),
                             disk |-> IF out = "deleted" THEN acc.disk \ {st.path}
                                      ELSE acc.disk]
                 IN IF out = "error" THEN nxt ELSE loop(i + 1, nxt)
            ELSE acc
    IN loop(0, [bytes_freed |-> 0, delete_errors |-> <<>>, attempted |-> <<>>,
                outcome |-> <<>>, disk |-> dsk])

\* for i in range(0, idx): one os.remove per prefix entry, in order; a removed
\* or already absent file is credited to bytes_freed, any other failure is
\* appended to delete_errors and the loop goes on.
RemoveLoop(lst, n, dsk, denied) ==
    LET RECURSIVE loop(_, _)
        loop(i, acc) ==
            IF i < n
            THEN LET st == lst[i + 1]
                     out == os_remove(st.path, acc.disk, denied)
                 IN loop(i + 1,
                      [bytes_freed |-> IF out = "error" THEN acc.bytes_freed
                                       ELSE acc.bytes_freed + st.st_size,
                       delete_errors |-> IF out = "error"
                                         THEN Append(acc.delete_errors, st)
                                         ELSE acc.delete_errors,
                       attempted |-> Append(acc.attempted, st),
                       outcome |-> Append(acc.outcome, out),
                       disk |-> IF out = "deleted" THEN acc.disk \ {st.path}
                                ELSE acc.disk])
            ELSE acc
    IN loop(0, [bytes_freed |-> 0, delete_errors |-> <<>>, attempted |-> <<>>,
                outcome |-> <<>>, disk |-> dsk])

\* The update of total_size, were it to add.
TotalAfter_add(total, bytes_freed) == total + bytes_freed

\* self.total_size -= bytes_freed
TotalAfter(total, bytes_freed) == total - bytes_freed

\* if bytes_freed < s / 2: `/` on two ints floors in Python 2 and is the true
\* quotient in Python 3.
IsCritical(bytes_freed, s, py3) ==
    IF py3 THEN 2 * bytes_freed < s ELSE bytes_freed < s \div 2

\* The paths of the first n entries of lst.
PrefixPaths(lst, n) == {lst[i].path : i \in 1..n}

\* FileListOrdered.delete_files_to_max_size(max_size), called when other
\* processes have removed the files gone since the last call and the files
\* denied cannot be removed; d and l are not touched. The critical event is
\* as either interpreter decides it.
Evict(max_size, gone, denied) ==
    LET scan == PrefixScan(total_size, l, max_size)
        mine == IF scan.raised THEN {} ELSE PrefixPaths(l, scan.idx)
    IN /\ gone \cap denied = {}
       /\ gone \cup denied \subseteq mine
       /\ UNCHANGED <<d, l, nedits>>
       /\ IF scan.raised
          THEN /\ call' = [NoCall("delete_files_to_max_size", "IndexError") EXCEPT
                             !.max_size = max_size, !.idx = scan.idx, !.s = scan.s]
               /\ UNCHANGED <<total_size, disk>>
          ELSE LET r == RemoveLoop(l, scan.idx, disk \ gone, denied)
               IN /\ total_size' = TotalAfter(total_size, r.bytes_freed)
                  /\ disk' = r.disk
                  /\ \E c \in {IsCritical(r.bytes_freed, scan.s, py3) : py3 \in BOOLEAN} :
                        call' = [op |-> "delete_files_to_max_size", status |-> "ok",
                                 max_size |-> max_size, idx |-> scan.idx, s |-> scan.s,
                                 bytes_freed |-> r.bytes_freed,
                                 delete_errors |-> r.delete_errors,
                                 attempted |-> r.attempted,
                                 outcome |-> r.outcome,
                                 critical |-> c]

\* The inventory on its own: no scanner and no daemon take part.
Next ==
    \/ \E k \in Paths, sz \in Sizes, ct \in Ctimes :
          /\ SetItem(k, [path |-> k, st_size |-> sz, st_ctime |-> ct])
          /\ UNCHANGED <<scan_vars, config_vars, monitor_vars>>
    \/ \E k \in Paths :
          /\ DelItem(k)
          /\ UNCHANGED <<scan_vars, config_vars, monitor_vars>>
    \/ \E m \in Targets, gone \in SUBSET disk, denied \in SUBSET disk :
          /\ Evict(m, gone, denied)
          /\ UNCHANGED <<scan_vars, config_vars, monitor_vars>>

Spec == Init /\ [][Next]_vars

TypeOK ==
    /\ DOMAIN d \subseteq Paths
    /\ \A p \in DOMAIN d : d[p] \in FileStat /\ d[p].path = p
    /\ l \in Seq(FileStat)
    /\ total_size \in Int
    /\ disk \subseteq Paths

\* ------------------------------------------------------------ vocabulary
\* lst is ascending by st_ctime.
Sorted(lst) ==
    \A i, j \in 1..Len(lst) : i < j => lst[i].st_ctime <= lst[j].st_ctime

\* lst holds exactly the records of the map dd, one per path.
Consistent(dd, lst) ==
    /\ \A i \in 1..Len(lst) : lst[i].path \in DOMAIN dd /\ dd[lst[i].path] = lst[i]
    /\ \A p \in DOMAIN dd : Cardinality({i \in 1..Len(lst) : lst[i].path = p}) = 1

\* The inventory is as a build leaves it.
AsBuilt == Sorted(l) /\ Consistent(d, l) /\ total_size = SumSizes(l)

\* The last call was an eviction / an eviction that returned.
Evicted == call.op = "delete_files_to_max_size"
Returned == Evicted /\ call.status = "ok"

\* This step is a call of delete_files_to_max_size.
EvictStep == call'.op = "delete_files_to_max_size"

\* The sizes of the attempted entries whose outcome is in outs.
RECURSIVE SizeOfOutcomes(_, _, _)
SizeOfOutcomes(att, out, outs) ==
    IF att = <<>> THEN 0
    ELSE (IF out[1] \in outs THEN att[1].st_size ELSE 0)
         + SizeOfOutcomes(Tail(att), Tail(out), outs)

\* The attempted entries whose outcome is in outs, in order.
RECURSIVE EntriesOfOutcomes(_, _, _)
EntriesOfOutcomes(att, out, outs) ==
    IF att = <<>> THEN <<>>
    ELSE (IF out[1] \in outs THEN <<att[1]>> ELSE <<>>)
         \o EntriesOfOutcomes(Tail(att), Tail(out), outs)

NoFailure(c) == \A i \in 1..Len(c.outcome) : c.outcome[i] # "error"
SomeDeleted(c) == \E i \in 1..Len(c.outcome) : c.outcome[i] = "deleted"
SomeFreed(c) == \E i \in 1..Len(c.outcome) : c.outcome[i] # "error"

\* ------------------------------------------------------------------ C1
\* C1: an eviction on an inventory as built, none of whose attempted deletions
\* fails, leaves total_size <= max_size, for every byte count max_size.
C1_TotalUnderTarget ==
    [][(AsBuilt /\ EvictStep /\ call'.max_size >= 0 /\ NoFailure(call'))
        => total_size' <= call'.max_size]_vars

\* ------------------------------------------------------------------ C2
\* C2: the entries an eviction attempts are a prefix of the st_ctime order: the
\* attempted entries are the first entries of l, and no entry of l strictly
\* older than an attempted one is left unattempted.
C2_EvictsPrefix ==
    Evicted =>
        LET n == Len(call.attempted)
        IN /\ n <= Len(l)
           /\ call.attempted = SubSeq(l, 1, n)
           /\ \A i \in 1..n, j \in 1..Len(l) :
                 l[j].st_ctime < call.attempted[i].st_ctime => j <= n

\* An eviction took some but not all entries of an inventory with pairwise
\* distinct st_ctime.
C2_Witness ==
    /\ Returned
    /\ Len(call.attempted) >= 1
    /\ Len(call.attempted) < Len(l)
    /\ \A i, j \in 1..Len(l) : i # j => l[i].st_ctime # l[j].st_ctime

\* ------------------------------------------------------------------ C3
\* C3: total_size is the sum of the sizes of the records in l, in every state.
C3_TotalIsSum == total_size = SumSizes(l)

\* ------------------------------------------------------------------ C4
\* C4: l is ascending by st_ctime and holds exactly one record per path of d,
\* the record d stores for it.
C4_SortedAndConsistent == Sorted(l) /\ Consistent(d, l)

\* ------------------------------------------------------------------ C5
\* C5: after an eviction returns, no attempted entry is left in d or in l.
C5_PrefixRemoved ==
    Returned =>
        \A i \in 1..Len(call.attempted) :
            /\ call.attempted[i].path \notin DOMAIN d
            /\ \A j \in 1..Len(l) : l[j] # call.attempted[i]

\* ------------------------------------------------------------------ C6
\* C6: an eviction that returns has attempted each of the idx prefix entries
\* once, in order, whatever the earlier outcomes; bytes_freed is the size of
\* the entries deleted or already absent, and delete_errors holds exactly the
\* entries that failed otherwise.
C6_Accounting ==
    Returned =>
        /\ call.attempted = SubSeq(l, 1, call.idx)
        /\ Len(call.outcome) = call.idx
        /\ call.bytes_freed =
              SizeOfOutcomes(call.attempted, call.outcome, {"deleted", "ENOENT"})
        /\ call.delete_errors =
              EntriesOfOutcomes(call.attempted, call.outcome, {"error"})

\* A failed deletion was followed by a deletion and by an absent file.
C6_Witness ==
    /\ Returned
    /\ \E i, j, k \in 1..Len(call.outcome) :
          /\ i < j /\ i < k
          /\ call.outcome[i] = "error"
          /\ call.outcome[j] = "deleted"
          /\ call.outcome[k] = "ENOENT"
    /\ call.bytes_freed > 0

\* ------------------------------------------------------------------ C7
\* C7: an eviction called with total_size <= max_size attempts nothing, frees
\* nothing and leaves d, l and total_size as they were.
C7_NoOpAtOrUnderTarget ==
    [][(EvictStep /\ total_size <= call'.max_size) =>
          /\ call'.attempted = <<>>
          /\ call'.bytes_freed = 0
          /\ d' = d /\ l' = l /\ total_size' = total_size]_vars

\* ------------------------------------------------------------------ C8
\* C8: every eviction returns normally with idx within l; on an empty l it
\* attempts and frees nothing, and with max_size <= 0 it attempts every entry.
C8_TerminatesNormally ==
    Evicted =>
        /\ call.status = "ok"
        /\ call.idx <= Len(l)
        /\ l = <<>> => (call.attempted = <<>> /\ call.bytes_freed = 0)
        /\ call.max_size <= 0 => Len(call.attempted) = Len(l)

\* ------------------------------------------------------------------ C9
\* C9 as stated: an eviction in which a deletion succeeds and failures leave
\* total_size above max_size leaves total_size strictly below its old value.
C9_StrictDecrease ==
    [][(EvictStep /\ call'.status = "ok" /\ SomeDeleted(call')
          /\ call'.delete_errors # <<>> /\ total_size' > call'.max_size)
        => total_size' < total_size]_vars

\* C9 amended: such an eviction never raises total_size, and lowers it
\* strictly when a deleted or already absent entry has a positive size.
C9_Decrease ==
    [][(EvictStep /\ call'.status = "ok" /\ SomeFreed(call')
          /\ call'.delete_errors # <<>> /\ total_size' > call'.max_size)
        => /\ total_size' <= total_size
           /\ (\E i \in 1..Len(call'.outcome) :
                  call'.outcome[i] # "error" /\ call'.attempted[i].st_size > 0)
              => total_size' < total_size]_vars

\* An eviction freed a positive-size entry, failed on another and stayed
\* above max_size.
C9_Witness ==
    /\ Returned
    /\ call.delete_errors # <<>>
    /\ total_size > call.max_size
    /\ \E i \in 1..Len(call.outcome) :
          call.outcome[i] # "error" /\ call.attempted[i].st_size > 0

\* ------------------------------------------------------------------ C10
\* C10: an eviction that reaches its end reports the critical event exactly
\* when 2 * bytes_freed < s, and returns with total_size lowered by bytes_freed.
C10_CriticalIffUnderHalf ==
    [][(EvictStep /\ call'.status = "ok") =>
          /\ call'.critical <=> (2 * call'.bytes_freed < call'.s)
          /\ total_size' = total_size - call'.bytes_freed]_vars

\* ------------------------------------------------------------------ C11
\* tests/test.py: five FileStat('hello<i>', MockStat()), the i-th of size
\* 1024 + i**2 and st_ctime 1000000000 + i.
moc_list ==
    [i \in 1..5 |-> [path |-> i - 1,
                     st_size |-> 1024 + (i - 1) * (i - 1),
                     st_ctime |-> 1000000000 + (i - 1)]]

\* The number of oldest entries of lst to take from total to get under
\* max_size: the least k with total - (size of the k oldest) < max_size.
\* Len(lst) + 1 when there is none.
LeastPrefix(total, lst, max_size) ==
    LET ks == {k \in 0..Len(lst) : total - SumSizes(SubSeq(lst, 1, k)) < max_size}
    IN IF ks = {} THEN Len(lst) + 1
       ELSE CHOOSE k \in ks : \A j \in ks : k <= j

\* C11: an eviction called with total_size > max_size, where some prefix of l
\* brings the total under max_size, returns having attempted exactly the
\* shortest such prefix; on the five files of tests/test.py with max_size
\* 3000 that is the three oldest, which leaves 2073.
C11_ShortestPrefix ==
    [][/\ (/\ EvictStep
           /\ total_size > call'.max_size
           /\ LeastPrefix(total_size, l, call'.max_size) <= Len(l))
          => /\ call'.status = "ok"
             /\ call'.idx = LeastPrefix(total_size, l, call'.max_size)
             /\ call'.attempted = SubSeq(l, 1, call'.idx)
       /\ LET fl == FileListOrdered(moc_list)
              scan == PrefixScan(fl.total_size, fl.l, 3000)
          IN /\ ~scan.raised
             /\ scan.idx = 3
             /\ SubSeq(fl.l, 1, scan.idx) = SubSeq(moc_list, 1, 3)
             /\ TotalAfter(fl.total_size, scan.s) = 2073]_vars

\* An eviction took two entries where the oldest alone did not bring the
\* total under max_size, and left a newer one.
C11_Witness ==
    /\ Returned
    /\ call.idx = 2
    /\ Len(l) > 2
    /\ total_size + call.bytes_freed > call.max_size
    /\ call.attempted[1].st_size > 0

\* ------------------------------------------------------------ get_dir_size
\* What os.stat(fp) gives for a listed file: a stat result, or OSError (the
\* file went, a link dangles, a directory on the way lost its permissions).
OSError == [raised |-> TRUE, st_size |-> 0, st_ctime |-> 0]
StatResult == [raised : {FALSE}, st_size : Sizes, st_ctime : Ctimes]

\* What os.walk lists under the directory, in its order, no file twice.
Walks ==
    {w \in UNION {[1..n -> [path : Paths, stat : StatResult \cup {OSError}]] :
                   n \in 0..Cardinality(Paths)} :
        \A i, j \in 1..Len(w) : w[i].path = w[j].path => i = j}

\* dir_cache, were the first OSError to end the scan.
RECURSIVE dir_cache_abort(_)
dir_cache_abort(w) ==
    IF w = <<>> THEN <<>>
    ELSE IF Head(w).stat = OSError
         THEN <<>>
         ELSE <<[path |-> Head(w).path,
                 st_size |-> Head(w).stat.st_size,
                 st_ctime |-> Head(w).stat.st_ctime]>> \o dir_cache_abort(Tail(w))

\* dir_cache: a FileStat(fp, stat) appended for each listed file whose
\* os.stat did not raise OSError.
RECURSIVE dir_cache(_)
dir_cache(w) ==
    IF w = <<>> THEN <<>>
    ELSE IF Head(w).stat = OSError
         THEN dir_cache(Tail(w))
         ELSE <<[path |-> Head(w).path,
                 st_size |-> Head(w).stat.st_size,
                 st_ctime |-> Head(w).stat.st_ctime]>> \o dir_cache(Tail(w))

\* get_dir_size(start_path): FileListOrdered(dir_cache)
get_dir_size(w) == FileListOrdered(dir_cache(w))

\* Nothing scanned yet: the inventory of no files.
InitScan ==
    /\ NoMonitor
    /\ NoLoop
    /\ walk = <<>>
    /\ d = FileListOrdered(<<>>).d
    /\ l = FileListOrdered(<<>>).l
    /\ total_size = FileListOrdered(<<>>).total_size
    /\ disk = {}
    /\ call = NoCall("__init__", "ok")
    /\ nedits = 0

\* One call of get_dir_size over what os.walk and os.stat give.
Scan(w) ==
    LET fl == get_dir_size(w)
    IN /\ walk' = w
       /\ d' = fl.d
       /\ l' = fl.l
       /\ total_size' = fl.total_size
       /\ disk' = DOMAIN fl.d
       /\ call' = NoCall("get_dir_size", "ok")
       /\ UNCHANGED <<nedits, config_vars, monitor_vars>>

NextScan == \E w \in Walks : Scan(w)

\* The scanner on its own: any number of scans of any directory content.
SpecScan == InitScan /\ [][NextScan]_<<vars, scan_vars, config_vars, monitor_vars>>

Scanned == call.op = "get_dir_size"

\* The listed files whose os.stat succeeded.
Statted(w) == {i \in 1..Len(w) : w[i].stat # OSError}

\* ------------------------------------------------------------------ C13
\* C13: the sequence a build gives depends only on the set of records: any
\* other order of the records the scan collected builds the same sequence l.
C13_OrderIndependent ==
    Scanned =>
        \A fs \in FileStatLists :
            {fs[i] : i \in 1..Len(fs)} = {dir_cache(walk)[i] : i \in 1..Len(dir_cache(walk))}
                => FileListOrdered(fs).l = l

\* ------------------------------------------------------------------ C14
\* C14: a scan returns whatever os.stat raises, and its inventory holds
\* exactly the listed files whose os.stat succeeded, each with the size and
\* ctime it gave, and total_size is the sum of their sizes.
C14_ScanSkipsFailures ==
    Scanned =>
        /\ call.status = "ok"
        /\ DOMAIN d = {walk[i].path : i \in Statted(walk)}
        /\ \A i \in Statted(walk) :
              d[walk[i].path] = [path |-> walk[i].path,
                                 st_size |-> walk[i].stat.st_size,
                                 st_ctime |-> walk[i].stat.st_ctime]
        /\ Consistent(d, l)
        /\ total_size = SumSizes(l)

\* A scan whose first listed file failed os.stat and whose second did not.
C14_Witness ==
    /\ Scanned
    /\ Len(walk) = 2
    /\ walk[1].stat = OSError
    /\ walk[2].stat # OSError
    /\ walk[2].stat.st_size > 0

\* ------------------------------------------------- Directory, get_directories
\* The most directories a config file names.
MaxDirs == 2

\* A directory path as the config spells it: so many leading slashes, then
\* the components between the further slashes.
PathSpellings == [slashes : 1..3, comps : {<<>>, <<".">>, <<"a">>, <<"a", "..">>}]

\* os.path.normpath over the components of an absolute path: '.' dropped,
\* '..' takes the component before it back, or is dropped at the top.
RECURSIVE new_comps(_, _)
new_comps(comps, acc) ==
    IF comps = <<>> THEN acc
    ELSE IF Head(comps) = "."
         THEN new_comps(Tail(comps), acc)
         ELSE IF Head(comps) # ".."
              THEN new_comps(Tail(comps), Append(acc, Head(comps)))
              ELSE IF acc # <<>>
                   THEN new_comps(Tail(comps), SubSeq(acc, 1, Len(acc) - 1))
                   ELSE new_comps(Tail(comps), acc)

\* os.path.abspath, were it to give one leading slash always.
abspath_one(path) ==
    [slashes |-> 1, comps |-> new_comps(path.comps, <<>>)]

\* os.path.abspath of an absolute path: POSIX normpath keeps exactly two
\* leading slashes as two, and makes one of any other number.
abspath(path) ==
    [slashes |-> IF path.slashes = 2 THEN 2 ELSE 1,
     comps |-> new_comps(path.comps, <<>>)]

\* The path '/'.
Root == [slashes |-> 1, comps |-> <<>>]

\* The spelling names the root of the filesystem.
NamesRoot(path) == new_comps(path.comps, <<>>) = <<>>

\* A size as the config writes it: a number and a unit suffix.
UNITS == <<"b", "k", "m", "g">>
DEFAULT_MAX_SIZE == [n |-> 100, unit |-> "g"]
DEFAULT_DISK_SIZE == [n |-> 200, unit |-> "g"]
ConfigSizes == {[n |-> 2, unit |-> "k"]}

RECURSIVE pow1024(_)
pow1024(u) == IF u = 0 THEN 1 ELSE 1024 * pow1024(u - 1)

\* UNITS.index(m.lower()), counted from 0.
get_unit(m) == (CHOOSE u \in 1..Len(UNITS) : UNITS[u] = m) - 1

\* unit_byte_size_tuple(s)[1]: the number times 1024 to the unit's index.
unit_byte_size(s) == s.n * pow1024(get_unit(s.unit))

\* The config of one directory: a dict over some of these keys.
Keys == {"max_size", "disk_size", "max_age"}
Configs == UNION {[K -> ConfigSizes] : K \in SUBSET Keys}

\* config.pop(key, default)
pop(config, key, default) == IF key \in DOMAIN config THEN config[key] ELSE default

\* The inventory of a Directory before _calculate_disk_usage set self.fl.
NoFl == FileListOrdered(<<>>)

\* Directory(path, config): exit_error for the path '/', TypeError for keys
\* left after the two pops, else the object; self.fl is not set. The object
\* keeps max_size and disk_size; max_bytes and disk_bytes are their values
\* in bytes.
Directory(path, config) ==
    IF abspath(path) = Root
    THEN [raised |-> "exit", self |-> <<>>]
    ELSE IF DOMAIN config \ {"max_size", "disk_size"} # {}
         THEN [raised |-> "TypeError", self |-> <<>>]
         ELSE [raised |-> "",
               self |-> [path |-> abspath(path),
                         max_size |-> pop(config, "max_size", DEFAULT_MAX_SIZE),
                         disk_size |-> pop(config, "disk_size", DEFAULT_DISK_SIZE),
                         usage_calculated_at |-> 0,
                         has_fl |-> FALSE,
                         fl |-> NoFl]]

\* self.max_bytes, self.disk_bytes
max_bytes(self) == unit_byte_size(self.max_size)
disk_bytes(self) == unit_byte_size(self.disk_size)

\* get_directories(settings): a Directory for each item of DIRECTORIES in
\* turn; exit_error when one exits or raises TypeError.
RECURSIVE get_directories(_, _)
get_directories(items, acc) ==
    IF items = <<>> THEN [exited |-> FALSE, directories |-> acc]
    ELSE LET dir == Directory(Head(items).path, Head(items).config)
         IN IF dir.raised # ""
            THEN [exited |-> TRUE, directories |-> acc]
            ELSE get_directories(Tail(items), Append(acc, dir.self))

\* The DIRECTORIES a config file may hold: a dict, no path twice.
DirectoryItems ==
    {ds \in UNION {[1..n -> [path : PathSpellings, config : Configs]] : n \in 0..MaxDirs} :
        \A i, j \in 1..Len(ds) : ds[i].path = ds[j].path => i = j}

\* monitor_func is entered with the settings of any config file.
InitConfig ==
    /\ NoScan
    /\ NoLoop
    /\ d = NoFl.d /\ l = NoFl.l /\ total_size = NoFl.total_size
    /\ disk = {} /\ call = NoCall("__init__", "ok") /\ nedits = 0
    /\ \E ds \in DirectoryItems : settings = [DIRECTORIES |-> ds, SLEEP |-> 1800]
    /\ directories = <<>>
    /\ pc = "get_directories"

\* directories = get_directories(settings)
GetDirectories ==
    /\ pc = "get_directories"
    /\ LET res == get_directories(settings.DIRECTORIES, <<>>)
       IN /\ directories' = res.directories
          /\ pc' = IF res.exited THEN "exit(255)" ELSE "if not directories"
    /\ UNCHANGED <<settings, vars, scan_vars, monitor_vars>>

\* if not directories: exit(0); the loop is entered otherwise.
IfNotDirectories ==
    /\ pc = "if not directories"
    /\ pc' = IF directories = <<>> THEN "exit(0)" ELSE "while"
    /\ UNCHANGED <<settings, directories, vars, scan_vars, monitor_vars>>

NextConfig == GetDirectories \/ IfNotDirectories

\* The start of the daemon: from the config to the entry of its loop.
SpecConfig == InitConfig /\ [][NextConfig]_<<vars, scan_vars, config_vars, monitor_vars>>

\* ------------------------------------------------------------------ C12
\* The item is one the construction has to reject.
Rejectable(item) ==
    \/ NamesRoot(item.path)
    \/ DOMAIN item.config \ {"max_size", "disk_size"} # {}

\* C12: when an item of DIRECTORIES spells the root or has a key other than
\* max_size and disk_size, the list of directories stops short of it (no
\* Directory is made for it) and the process exits with an error; it never
\* enters the loop.
C12_RejectsRootAndUnknownKeys ==
    (/\ pc # "get_directories"
     /\ \E i \in 1..Len(settings.DIRECTORIES) : Rejectable(settings.DIRECTORIES[i]))
        => /\ pc = "exit(255)"
           /\ \A i \in 1..Len(settings.DIRECTORIES) :
                 Rejectable(settings.DIRECTORIES[i]) => Len(directories) < i

\* ------------------------------------------------------------ monitor_func
\* The clock stops the model at MaxTime.
MaxTime == 3

\* The time that passes between two readings of the clock, the clock at the
\* start of the daemon, and the SLEEP a config may set.
Ticks == 0..1
Clock0 == 0..1
Sleeps == 0..1

\* The directories of the running daemon: one or two, each with max_size and
\* disk_size in bytes.
MonitorItems ==
    {ds \in UNION {[1..n -> [path : {p \in PathSpellings : p.comps = <<"a">>},
                             config : [max_size : {[n |-> m, unit |-> "b"] : m \in 0..1},
                                       disk_size : {[n |-> 3, unit |-> "b"]}]]] :
                    n \in 1..2} :
        \A j \in 1..Len(ds) : ds[j].path.slashes = j}

\* What os.walk and os.stat find in a directory at a rescan: some of its two
\* files, the older of 1 byte and the newer of 2.
MonitorWalks ==
    {w \in Walks :
        /\ \A j \in 1..Len(w) : /\ w[j].stat # OSError
                                /\ w[j].stat.st_ctime = w[j].path
                                /\ w[j].stat.st_size = w[j].path
        /\ \A j, k \in 1..Len(w) : j < k => w[j].path < w[k].path}

\* if self.fl.total_size > (self.max_bytes + ((self.disk_bytes - self.max_bytes) / 2)):
\* the byte values are floats, so the quotient is the true one.
Alarm(self) == 2 * self.fl.total_size > max_bytes(self) + disk_bytes(self)

\* check_disk_usage, were it to test the alarm whether it rescanned or not.
check_disk_usage_always(self, t, w, sleep) ==
    IF t >= self.usage_calculated_at + sleep
    THEN LET scanned == [self EXCEPT !.usage_calculated_at = t,
                                     !.has_fl = TRUE,
                                     !.fl = get_dir_size(w)]
         IN [self |-> scanned, rescanned |-> TRUE, ret |-> Alarm(scanned)]
    ELSE [self |-> self, rescanned |-> FALSE, ret |-> Alarm(self)]

\* Directory.check_disk_usage at time t, when a scan would find w: past
\* usage_calculated_at + SLEEP it rescans (_calculate_disk_usage) and returns
\* whether the alarm holds of the new total; it returns False otherwise.
check_disk_usage(self, t, w, sleep) ==
    IF t >= self.usage_calculated_at + sleep
    THEN LET scanned == [self EXCEPT !.usage_calculated_at = t,
                                     !.has_fl = TRUE,
                                     !.fl = get_dir_size(w)]
         IN [self |-> scanned, rescanned |-> TRUE, ret |-> Alarm(scanned)]
    ELSE [self |-> self, rescanned |-> FALSE, ret |-> FALSE]

\* Directory.run_cleanup with the files dsk on disk, of which denied cannot
\* be removed: AttributeError without self.fl, the eviction to max_bytes when
\* total_size > max_bytes (True), else False.
run_cleanup(self, dsk, denied) ==
    IF ~self.has_fl
    THEN [raised |-> "AttributeError", self |-> self, disk |-> dsk,
          ret |-> FALSE, evicted |-> FALSE]
    ELSE IF self.fl.total_size > max_bytes(self)
         THEN LET scan == PrefixScan(self.fl.total_size, self.fl.l, max_bytes(self))
              IN IF scan.raised
                 THEN [raised |-> "IndexError", self |-> self, disk |-> dsk,
                       ret |-> FALSE, evicted |-> TRUE]
                 ELSE LET r == RemoveLoop(self.fl.l, scan.idx, dsk, denied)
                      IN [raised |-> "",
                          self |-> [self EXCEPT !.fl.total_size =
                                       TotalAfter(self.fl.total_size, r.bytes_freed)],
                          disk |-> r.disk, ret |-> TRUE, evicted |-> TRUE]
         ELSE [raised |-> "", self |-> self, disk |-> dsk,
               ret |-> FALSE, evicted |-> FALSE]

\* The third loop's should_sleep, were it to ignore what the check returned.
ShouldSleep_keep(sleep, ret) == sleep

\* if directory.check_disk_usage(): should_sleep = False
ShouldSleep(sleep, ret) == IF ret THEN FALSE ELSE sleep

\* The loop is entered with the directories get_directories made of a valid
\* config, none of them scanned.
InitMonitor ==
    /\ NoScan
    /\ d = NoFl.d /\ l = NoFl.l /\ total_size = NoFl.total_size
    /\ disk = {} /\ call = NoCall("__init__", "ok") /\ nedits = 0
    /\ \E ds \in MonitorItems, s \in Sleeps : settings = [DIRECTORIES |-> ds, SLEEP |-> s]
    /\ directories = get_directories(settings.DIRECTORIES, <<>>).directories
    /\ pc = "while"
    /\ now \in Clock0
    /\ start = 0
    /\ should_sleep = TRUE
    /\ directory = 0
    /\ files = [k \in DOMAIN directories |-> {}]
    /\ pending = [k \in DOMAIN directories |-> FALSE]
    /\ checks = NoChecks
    /\ last = NoLast

\* for directory in directories: on to the next one, or to what follows the loop.
ForNext(after) ==
    IF directory < Len(directories)
    THEN directory' = directory + 1 /\ pc' = pc
    ELSE directory' = 1 /\ pc' = after

\* while True: should_sleep = True; start = time.time()
WhileTrue(dt) ==
    /\ pc = "while"
    /\ now + dt <= MaxTime
    /\ now' = now + dt
    /\ start' = now'
    /\ should_sleep' = TRUE
    /\ directory' = 1
    /\ pc' = "check_disk_usage"
    /\ checks' = NoChecks
    /\ last' = [NoLast EXCEPT !.fn = "while"]
    /\ UNCHANGED <<settings, directories, files, pending, vars, scan_vars>>

\* The first loop: directory.check_disk_usage(), its result dropped.
CheckDiskUsage(dt, w) ==
    LET res == check_disk_usage(directories[directory], now + dt, w, settings.SLEEP)
    IN /\ pc = "check_disk_usage"
       /\ now + dt <= MaxTime
       /\ res.rescanned \/ w = <<>>
       /\ now' = now + dt
       /\ directories' = [directories EXCEPT ![directory] = res.self]
       /\ files' = IF res.rescanned
                   THEN [files EXCEPT ![directory] = DOMAIN res.self.fl.d]
                   ELSE files
       /\ pending' = IF res.rescanned
                     THEN [pending EXCEPT ![directory] =
                             res.self.fl.total_size > max_bytes(res.self)]
                     ELSE pending
       /\ checks' = [checks EXCEPT
                       !.called1 = checks.called1 \cup {directory},
                       !.first = IF res.ret THEN checks.first \cup {directory}
                                 ELSE checks.first]
       /\ last' = [NoLast EXCEPT !.fn = "check_disk_usage", !.dir = directory,
                                 !.ret = res.ret, !.rescanned = res.rescanned,
                                 !.had_fl = res.self.has_fl]
       /\ ForNext("run_cleanup")
       /\ UNCHANGED <<settings, start, should_sleep, vars, scan_vars>>

\* The second loop: directory.run_cleanup(), its result dropped; what it
\* raises ends the process.
RunCleanup(dt, denied) ==
    LET self == directories[directory]
        res == run_cleanup(self, files[directory], denied)
    IN /\ pc = "run_cleanup"
       /\ now + dt <= MaxTime
       /\ denied \subseteq files[directory]
       /\ (res.evicted /\ res.raised = "") \/ denied = {}
       /\ now' = now + dt
       /\ directories' = [directories EXCEPT ![directory] = res.self]
       /\ files' = [files EXCEPT ![directory] = res.disk]
       /\ pending' = IF res.evicted THEN [pending EXCEPT ![directory] = FALSE]
                     ELSE pending
       /\ last' = [NoLast EXCEPT !.fn = "run_cleanup", !.dir = directory,
                                 !.ret = res.ret, !.evicted = res.evicted,
                                 !.had_fl = self.has_fl,
                                 !.over_max = self.fl.total_size > max_bytes(self)]
       /\ IF res.raised # ""
          THEN pc' = res.raised /\ UNCHANGED directory
          ELSE ForNext("check_disk_usage again")
       /\ UNCHANGED <<settings, start, should_sleep, checks, vars, scan_vars>>

\* The third loop: if directory.check_disk_usage(): should_sleep = False
CheckDiskUsageAgain(dt, w) ==
    LET res == check_disk_usage(directories[directory], now + dt, w, settings.SLEEP)
    IN /\ pc = "check_disk_usage again"
       /\ now + dt <= MaxTime
       /\ res.rescanned \/ w = <<>>
       /\ now' = now + dt
       /\ directories' = [directories EXCEPT ![directory] = res.self]
       /\ files' = IF res.rescanned
                   THEN [files EXCEPT ![directory] = DOMAIN res.self.fl.d]
                   ELSE files
       /\ pending' = IF res.rescanned
                     THEN [pending EXCEPT ![directory] =
                             res.self.fl.total_size > max_bytes(res.self)]
                     ELSE pending
       /\ checks' = [checks EXCEPT
                       !.called2 = checks.called2 \cup {directory},
                       !.second = IF res.ret THEN checks.second \cup {directory}
                                  ELSE checks.second]
       /\ should_sleep' = ShouldSleep(should_sleep, res.ret)
       /\ last' = [NoLast EXCEPT !.fn = "check_disk_usage", !.dir = directory,
                                 !.ret = res.ret, !.rescanned = res.rescanned,
                                 !.had_fl = res.self.has_fl]
       /\ ForNext("end")
       /\ UNCHANGED <<settings, start, vars, scan_vars>>

\* end = time.time(); elapsed = end - start; if should_sleep: the error is
\* logged when elapsed > SLEEP, and time.sleep(SLEEP - elapsed) raises on a
\* negative length, else returns after that long or over later.
EndRun(dt, over) ==
    LET end == now + dt
        elapsed == end - start
        sleep_sec == settings.SLEEP - elapsed
    IN /\ pc = "end"
       /\ IF should_sleep
          THEN IF sleep_sec < 0
               THEN /\ over = 0
                    /\ end <= MaxTime
                    /\ now' = end
                    /\ pc' = "ValueError"
                    /\ last' = [NoLast EXCEPT !.fn = "time.sleep", !.elapsed = elapsed,
                                              !.logged = elapsed > settings.SLEEP]
               ELSE /\ end + sleep_sec + over <= MaxTime
                    /\ now' = end + sleep_sec + over
                    /\ pc' = "while"
                    /\ last' = [NoLast EXCEPT !.fn = "time.sleep", !.ret = TRUE,
                                              !.elapsed = elapsed,
                                              !.logged = elapsed > settings.SLEEP]
          ELSE /\ over = 0
               /\ end <= MaxTime
               /\ now' = end
               /\ pc' = "while"
               /\ last' = [NoLast EXCEPT !.fn = "end", !.elapsed = elapsed]
       /\ UNCHANGED <<settings, directories, start, should_sleep, directory, files,
                      pending, checks, vars, scan_vars>>

NextMonitor ==
    \/ \E dt \in Ticks : WhileTrue(dt)
    \/ \E dt \in Ticks, w \in MonitorWalks : CheckDiskUsage(dt, w)
    \/ \E dt \in Ticks, denied \in SUBSET Paths : RunCleanup(dt, denied)
    \/ \E dt \in Ticks, w \in MonitorWalks : CheckDiskUsageAgain(dt, w)
    \/ \E dt \in Ticks, over \in Ticks : EndRun(dt, over)

\* The daemon's loop over the directories of a valid config.
SpecMonitor ==
    InitMonitor /\ [][NextMonitor]_<<vars, scan_vars, config_vars, monitor_vars>>

all_vars == <<vars, scan_vars, config_vars, monitor_vars>>

\* The process ended on an exception nothing caught.
Raised == pc \in {"AttributeError", "IndexError", "ValueError"}

\* The last step was a check_disk_usage / the run_cleanup / the sleep.
Checked == last.fn = "check_disk_usage"
Cleaned == last.fn = "run_cleanup"
Slept == last.fn = "time.sleep" /\ last.ret

\* ------------------------------------------------------------------ C15
\* C15: the loop never sleeps while a rescan that left a directory's
\* total_size over max_bytes was not followed by an eviction on it; and a
\* run_cleanup calls the eviction exactly when total_size > max_bytes, and
\* returns True exactly when it called it.
C15_EvictionBeforeSleep ==
    /\ Slept => \A k \in DOMAIN pending : ~pending[k]
    /\ (Cleaned /\ last.had_fl) =>
          /\ last.evicted <=> last.over_max
          /\ ~Raised => (last.ret <=> last.evicted)

\* ------------------------------------------------------------------ C16
\* C16: when a cycle took longer than SLEEP the overrun is logged and the
\* loop is at the top of its next cycle: the process did not end.
C16_OverrunGoesOn ==
    (last.fn \in {"time.sleep", "end"} /\ last.elapsed > settings.SLEEP)
        => last.logged /\ pc = "while"

\* ------------------------------------------------------------------ C17
\* A step that is a call of check_disk_usage, in the first or the third loop.
CheckStep == pc \in {"check_disk_usage", "check_disk_usage again"}

\* C17: every check_disk_usage of a cycle, the one before the cleanup and the
\* one after it, gives the alarm predicate of the directory's total_size as
\* it then is (after the cleanup, for the second).
C17_AlarmBeforeAndAfter ==
    [][CheckStep => (last'.ret <=> Alarm(directories'[last'.dir]))]_all_vars

\* C17, amended: at the end of a cycle check_disk_usage was called for every
\* directory both before and after the cleanups; a call gives the alarm
\* predicate only when it rescans, of the total the rescan found, and gives
\* False without touching the directory when it does not rescan.
C17_AlarmOnRescan ==
    /\ [](pc = "end" => /\ checks.called1 = DOMAIN directories
                        /\ checks.called2 = DOMAIN directories)
    /\ [][CheckStep =>
            /\ last'.ret <=> (last'.rescanned /\ Alarm(directories'[last'.dir]))
            /\ ~last'.rescanned => directories' = directories]_all_vars

\* A second check that did not rescan and returned False while the total
\* the cleanup left is over the alarm line.
C17_Witness ==
    /\ Checked
    /\ last.dir \in checks.called2
    /\ ~last.rescanned
    /\ ~last.ret
    /\ Alarm(directories[last.dir])

\* ------------------------------------------------------------------ C18
\* C18: whatever the alarm gave, the cycle ends the same way, in the sleep:
\* should_sleep is still True when the three loops are done.
C18_AlarmObservational == pc = "end" => should_sleep

\* C18, amended: the sleep is skipped exactly when a check_disk_usage of the
\* third loop returned True; what the first loop's checks return has no
\* effect, and a check that does not rescan leaves every inventory as it was.
C18_AlarmSkipsSleep ==
    /\ [](pc = "end" => (should_sleep <=> checks.second = {}))
    /\ [][(CheckStep /\ ~last'.rescanned) =>
             \A k \in DOMAIN directories : directories'[k].fl = directories[k].fl]_all_vars

\* A cycle whose first loop raised the alarm and whose third did not: it
\* sleeps.
C18_Witness == pc = "end" /\ checks.first # {} /\ checks.second = {} /\ should_sleep

\* ------------------------------------------------------------------ C19
\* The sizes the inventory holds for those of its files that are on disk.
OnDiskSize(self, dsk) ==
    SumSizes(SelectSeq(self.fl.l, LAMBDA st : st.path \in dsk))

\* C19: a directory's total_size is never under the summed sizes of its
\* inventory's files that are still on disk.
C19_NoDoubleCredit ==
    \A k \in DOMAIN directories :
        directories[k].has_fl =>
            directories[k].fl.total_size >= OnDiskSize(directories[k], files[k])

\* ------------------------------------------------------------------ C20
\* C20: a run_cleanup is called on a directory only after a rescan gave it
\* an inventory.
C20_CleanupAfterRescan == Cleaned => last.had_fl

====
